---- MODULE Spec2Model ----
(***************************************************************************)
(* A model of oauth2-nodejs (src/index.js): the redirect builder, the two  *)
(* token exchangers, the user-info fetcher, the query encoder, the reply   *)
(* interpreter and the HTTPS requester with its response events.           *)
(*                                                                         *)
(* Strings.  A JavaScript string is a sequence of symbols.  A symbol is    *)
(* either one character (" ", "%", "/", ":", a hex digit, ...) or a word   *)
(* made only of characters that percent-encoding leaves alone ("cid",      *)
(* "offline", "client_id"), which abbreviates its characters.  A response  *)
(* body is a sequence of JSON lexemes ("{", "\"state\"", ":", ...).        *)
(*                                                                         *)
(* JavaScript values are records tagged by t: "string" (s), "number" (n),  *)
(* "boolean" (b), "object" (props, an insertion-ordered sequence of        *)
(* <<key, value>> pairs), "null" and "undefined".                          *)
(***************************************************************************)
EXTENDS Integers, Sequences, FiniteSets, TLC

VARIABLES heap, redirect, calls, alive, interp

vars == <<heap, redirect, calls, alive, interp>>

(***************************************************************************)
(* Bounds of the model.                                                    *)
(***************************************************************************)
MaxCalls == 2
MaxChunk == 2

(***************************************************************************)
(* JavaScript values.                                                      *)
(***************************************************************************)
JStr(s) == [t |-> "string", s |-> s]
JNum(n) == [t |-> "number", n |-> n]
JBool(b) == [t |-> "boolean", b |-> b]
JObj(props) == [t |-> "object", props |-> props]
JNull == [t |-> "null"]
JUndef == [t |-> "undefined"]

\* ToBoolean, as applied by `if (x)` and `!x`.
Truthy(v) ==
    CASE v.t = "string" -> v.s # <<>>
      [] v.t = "number" -> v.n # 0
      [] v.t = "boolean" -> v.b
      [] v.t = "object" -> TRUE
      [] OTHER -> FALSE

\* ToString, as applied by encodeURIComponent to a non-string argument.
JsToString(v) ==
    CASE v.t = "string" -> v.s
      [] v.t = "boolean" -> IF v.b THEN <<"true">> ELSE <<"false">>
      [] v.t = "null" -> <<"null">>
      [] OTHER -> <<"undefined">>

\* obj[key] on an insertion-ordered mapping: undefined when the key is missing.
HasProp(props, key) == \E i \in 1..Len(props) : props[i][1] = key

GetProp(props, key) ==
    IF HasProp(props, key)
    THEN props[CHOOSE i \in 1..Len(props) : props[i][1] = key][2]
    ELSE JUndef

\* obj[key] = v: overwrite in place, or append as the newest key.
SetProp(props, key, v) ==
    IF HasProp(props, key)
    THEN [i \in 1..Len(props) |->
            IF props[i][1] = key THEN <<key, v>> ELSE props[i]]
    ELSE Append(props, <<key, v>>)

Keys(props) == [i \in 1..Len(props) |-> props[i][1]]

(***************************************************************************)
(* String primitives.                                                      *)
(***************************************************************************)
RECURSIVE Flatten(_)
Flatten(ss) == IF ss = <<>> THEN <<>> ELSE Head(ss) \o Flatten(Tail(ss))

RECURSIVE Join(_, _)
Join(ss, sep) ==
    IF ss = <<>> THEN <<>>
    ELSE IF Len(ss) = 1 THEN Head(ss)
    ELSE Head(ss) \o sep \o Join(Tail(ss), sep)

\* String.prototype.indexOf with a one-character needle: -1 when missing.
IndexOf(s, c) ==
    IF \E i \in 1..Len(s) : s[i] = c
    THEN (CHOOSE i \in 1..Len(s) : s[i] = c /\ \A j \in 1..(i-1) : s[j] # c) - 1
    ELSE -1

Clamp(n, lo, hi) == IF n < lo THEN lo ELSE IF n > hi THEN hi ELSE n

\* String.prototype.substring(a, b): both ends clamped to [0, length].
Substring(s, a, b) ==
    LET a0 == Clamp(a, 0, Len(s))
        b0 == Clamp(b, 0, Len(s))
        lo == IF a0 < b0 THEN a0 ELSE b0
        hi == IF a0 < b0 THEN b0 ELSE a0
    IN  SubSeq(s, lo + 1, hi)

StartsAt(s, i, pat) ==
    /\ i + Len(pat) - 1 <= Len(s)
    /\ SubSeq(s, i, i + Len(pat) - 1) = pat

\* String.prototype.replace(pat, rep) with a string pattern: the first
\* occurrence only, anywhere in the string.
ReplaceFirst(s, pat, rep) ==
    IF \E i \in 1..Len(s) : StartsAt(s, i, pat)
    THEN LET i == CHOOSE k \in 1..Len(s) :
                    StartsAt(s, k, pat) /\ \A j \in 1..(k-1) : ~StartsAt(s, j, pat)
         IN  SubSeq(s, 1, i - 1) \o rep \o SubSeq(s, i + Len(pat), Len(s))
    ELSE s

(***************************************************************************)
(* Percent-encoding.  PercentCode lists the escaped characters the model   *)
(* uses with the two hex digits of their UTF-8 byte; every other symbol is *)
(* in the unescaped set A-Z a-z 0-9 - _ . ! ~ * ' ( ).                     *)
(***************************************************************************)
PercentCode ==
    (" " :> <<"2", "0">>) @@ ("%" :> <<"2", "5">>) @@ ("&" :> <<"2", "6">>) @@
    ("+" :> <<"2", "B">>) @@ ("/" :> <<"2", "F">>) @@ (":" :> <<"3", "A">>) @@
    ("=" :> <<"3", "D">>) @@ ("?" :> <<"3", "F">>)

EscapeSymbol(c) ==
    IF c \in DOMAIN PercentCode THEN <<"%">> \o PercentCode[c] ELSE <<c>>

EscapeString(s) == Flatten([i \in 1..Len(s) |-> EscapeSymbol(s[i])])

\* The global encodeURIComponent(value).
encodeURIComponent(v) == EscapeString(JsToString(v))

\* querystring.escape(str): the same unescaped set for these characters.
QsEscape(s) == EscapeString(s)

\* querystring's stringifyPrimitive(v).
StringifyPrimitive(v) ==
    CASE v.t = "string" -> v.s
      [] v.t = "boolean" -> IF v.b THEN <<"true">> ELSE <<"false">>
      [] OTHER -> <<>>

\* querystring.stringify(obj): escape(key) = escape(value), joined by "&",
\* in the order of Object.keys(obj).
QsStringify(props) ==
    Join([i \in 1..Len(props) |->
            QsEscape(props[i][1]) \o <<"=">> \o
            QsEscape(StringifyPrimitive(props[i][2]))],
         <<"&">>)

\* Buffer.byteLength(str): the characters here are ASCII, one byte each; a
\* word symbol counts its characters.
SymbolBytes ==
    ("client_id" :> 9) @@ ("client_secret" :> 13) @@ ("redirect_uri" :> 12) @@
    ("code" :> 4) @@ ("grant_type" :> 10) @@ ("authorization_code" :> 18) @@
    ("refresh_token" :> 13) @@ ("scope" :> 5) @@ ("state" :> 5) @@
    ("access_token" :> 12) @@ ("cid" :> 3) @@ ("sec" :> 3) @@ ("https" :> 5) @@
    ("app" :> 3) @@ ("cb" :> 2) @@ ("email" :> 5) @@ ("profile" :> 7) @@
    ("xyz" :> 3) @@ ("tok" :> 3) @@ ("idp" :> 3) @@ ("auth" :> 4) @@
    ("token" :> 5) @@ ("me" :> 2) @@ ("undefined" :> 9)

RECURSIVE ByteLength(_)
ByteLength(s) ==
    IF s = <<>> THEN 0
    ELSE (IF Head(s) \in DOMAIN SymbolBytes THEN SymbolBytes[Head(s)] ELSE 1)
         + ByteLength(Tail(s))

(***************************************************************************)
(* Objects and inputs.  The heap holds the caller's provider descriptor    *)
(* and the parameter mapping of the operation that ran last; a reference   *)
(* names one of them.                                                      *)
(***************************************************************************)
Refs == {"provider", "parameters"}

AuthUri == <<"https", ":", "/", "/", "idp", "/", "auth">>
AccessTokenUri == <<"https", ":", "/", "/", "idp", "/", "token">>
UserInfoUri == <<"https", ":", "/", "/", "idp", "/", "me">>

Optional(key, v) == IF v = JUndef THEN <<>> ELSE << <<key, v>> >>

Provider(scope, state, offline) ==
    << <<(<<"clientId">>), JStr(<<"cid">>)>>,
       <<(<<"clientSecret">>), JStr(<<"sec">>)>>,
       <<(<<"authUri">>), JStr(AuthUri)>>,
       <<(<<"accessTokenUri">>), JStr(AccessTokenUri)>>,
       <<(<<"userInfoUri">>), JStr(UserInfoUri)>> >>
    \o Optional(<<"scope">>, scope)
    \o Optional(<<"state">>, state)
    \o Optional(<<"offline">>, offline)

Scopes == {JUndef, JStr(<<>>), JStr(<<"email", " ", "profile">>)}
States == {JUndef, JStr(<<"xyz">>)}
Offlines == {JUndef, JBool(FALSE), JBool(TRUE)}

Providers ==
    {Provider(sc, st, off) : sc \in Scopes, st \in States, off \in Offlines}

FullProvider ==
    Provider(JStr(<<"email", " ", "profile">>), JStr(<<"xyz">>), JBool(TRUE))

RedirectUris ==
    { <<"https", ":", "/", "/", "app", "/", "cb">>,
      <<"https", ":", "/", "/", "app", "/", "cb", "?", "x", "=", "1">> }

\* Language tags: omitted, empty, and two tags of unescaped characters.
Locales == {JUndef, JStr(<<>>), JStr(<<"en">>), JStr(<<"fr">>)}

Codes == { <<"4", "/", "a">>, <<"tok">> }
Tokens == { <<"1", "+", "b">>, <<"tok">> }

(***************************************************************************)
(* buildQueryString(parameters): encodes every value of the mapping it is  *)
(* given IN PLACE, then stringifies the mapping.                           *)
(***************************************************************************)
buildQueryString(h, ref) ==
    LET encoded == [i \in 1..Len(h[ref]) |->
                      <<h[ref][i][1], JStr(encodeURIComponent(h[ref][i][2]))>>]
    IN  [heap |-> [h EXCEPT ![ref] = encoded],
         result |-> QsStringify(encoded)]

AliasedParameters == "provider"

\* The object the literal `var parameters = { ... }` allocates: a fresh one,
\* distinct from the provider.
NewParameters == "parameters"

WithIfDefined(params, key, test, v) ==
    IF test # JUndef THEN SetProp(params, key, v) ELSE params

\* `if (provider.scope) parameters.scope = provider.scope;` and the like.
WithIfTruthy(params, key, test, v) ==
    IF Truthy(test) THEN SetProp(params, key, v) ELSE params

(***************************************************************************)
(* CreateRedirect(provider, redirectUri, locale)                           *)
(***************************************************************************)
CreateRedirectParameters(p, redirectUri, locale) ==
    LET loc == IF ~Truthy(locale) THEN JStr(<<"en">>) ELSE locale
        p0 == << <<(<<"client_id">>), GetProp(p, <<"clientId">>)>>,
                 <<(<<"display">>), JStr(<<"page">>)>>,
                 <<(<<"locale">>), loc>>,
                 <<(<<"redirect_uri">>), redirectUri>>,
                 <<(<<"response_type">>), JStr(<<"code">>)>> >>
        p1 == WithIfTruthy(p0, <<"access_type">>, GetProp(p, <<"offline">>),
                           JStr(<<"offline">>))
        p2 == WithIfTruthy(p1, <<"scope">>, GetProp(p, <<"scope">>),
                           GetProp(p, <<"scope">>))
    IN  WithIfTruthy(p2, <<"state">>, GetProp(p, <<"state">>),
                     GetProp(p, <<"state">>))

CreateRedirectCall(h, redirectUri, locale) ==
    LET p == h["provider"]
        ref == NewParameters
        h1 == [h EXCEPT ![ref] = CreateRedirectParameters(p, redirectUri, locale)]
        authUri == JsToString(GetProp(p, <<"authUri">>))
        built == buildQueryString(h1, ref)
    IN  [heap |-> built.heap, result |-> authUri \o <<"?">> \o built.result]

NoRedirect ==
    [called |-> FALSE, redirectUri |-> <<>>, locale |-> JUndef, result |-> <<>>]

CreateRedirect(redirectUri, locale) ==
    /\ alive
    /\ LET r == CreateRedirectCall(heap, JStr(redirectUri), locale)
       IN  /\ heap' = r.heap
           /\ redirect' = [called |-> TRUE, redirectUri |-> redirectUri,
                           locale |-> locale, result |-> r.result]
    /\ UNCHANGED <<calls, alive, interp>>


(***************************************************************************)
(* JSON.parse on a sequence of lexemes.  The lexeme tables list the string *)
(* and number literals the model uses; any other lexeme that is not        *)
(* punctuation or a literal name is a syntax error.                        *)
(***************************************************************************)
StringLexemes ==
    ("\"access_token\"" :> <<"access_token">>) @@
    ("\"refresh_token\"" :> <<"refresh_token">>) @@
    ("\"state\"" :> <<"state">>) @@
    ("\"expires\"" :> <<"expires">>) @@
    ("\"expires_in\"" :> <<"expires_in">>) @@
    ("\"A\"" :> <<"A">>) @@ ("\"R\"" :> <<"R">>) @@ ("\"S\"" :> <<"S">>) @@
    ("\"\"" :> <<>>)

NumberLexemes == ("120" :> 120) @@ ("3600" :> 3600) @@ ("0" :> 0)

LiteralLexemes ==
    ("null" :> JNull) @@ ("true" :> JBool(TRUE)) @@ ("false" :> JBool(FALSE))

ParseFail == [ok |-> FALSE, value |-> JUndef, next |-> 0]

RECURSIVE ParseValue(_, _)
RECURSIVE ParseMembers(_, _, _)

\* One JSON value starting at lexeme i: [ok, value, next lexeme].
ParseValue(text, i) ==
    IF i > Len(text) THEN ParseFail
    ELSE LET l == text[i] IN
         CASE l \in DOMAIN StringLexemes ->
                [ok |-> TRUE, value |-> JStr(StringLexemes[l]), next |-> i + 1]
           [] l \in DOMAIN NumberLexemes ->
                [ok |-> TRUE, value |-> JNum(NumberLexemes[l]), next |-> i + 1]
           [] l \in DOMAIN LiteralLexemes ->
                [ok |-> TRUE, value |-> LiteralLexemes[l], next |-> i + 1]
           [] l = "{" ->
                IF i + 1 <= Len(text) /\ text[i + 1] = "}"
                THEN [ok |-> TRUE, value |-> JObj(<<>>), next |-> i + 2]
                ELSE ParseMembers(text, i + 1, <<>>)
           [] OTHER -> ParseFail

\* The members of an object from lexeme i on, up to its closing brace; a
\* repeated key keeps its last value.
ParseMembers(text, i, acc) ==
    IF i + 1 > Len(text) \/ text[i] \notin DOMAIN StringLexemes \/ text[i + 1] # ":"
    THEN ParseFail
    ELSE LET v == ParseValue(text, i + 2)
             acc1 == SetProp(acc, StringLexemes[text[i]], v.value)
         IN  IF ~v.ok \/ v.next > Len(text) THEN ParseFail
             ELSE IF text[v.next] = "}"
                  THEN [ok |-> TRUE, value |-> JObj(acc1), next |-> v.next + 1]
             ELSE IF text[v.next] = ","
                  THEN ParseMembers(text, v.next + 1, acc1)
             ELSE ParseFail

\* JSON.parse(text): a value, or SyntaxError (ok = FALSE).
JSONparse(text) ==
    LET r == ParseValue(text, 1)
    IN  IF r.ok /\ r.next = Len(text) + 1
        THEN [ok |-> TRUE, value |-> r.value]
        ELSE [ok |-> FALSE, value |-> JUndef]

(***************************************************************************)
(* interpretReply(reply)                                                   *)
(***************************************************************************)
\* reply[key]: reading a property of null or undefined throws TypeError;
\* a string, number or boolean has none of the recognized keys.
CanRead(v) == v.t \notin {"null", "undefined"}

Member(v, key) == IF v.t = "object" THEN GetProp(v.props, key) ELSE JUndef

AssignIfPresent(response, field, reply, key) ==
    IF reply.t = "object" /\ HasProp(reply.props, key)
    THEN [response EXCEPT ![field] = Member(reply, key)]
    ELSE response

\* `if (reply[key]) response.field = reply[key];`
AssignIf(response, field, reply, key) ==
    IF Truthy(Member(reply, key))
    THEN [response EXCEPT ![field] = Member(reply, key)]
    ELSE response

\* [threw, response]: threw is the TypeError of the first property read.
interpretReply(body) ==
    LET r0 == [accessToken |-> JNull, refreshToken |-> JNull, expires |-> JNull]
        parsed == JSONparse(body)
        reply == IF parsed.ok THEN parsed.value ELSE JStr(body)
        r1 == AssignIf(r0, "accessToken", reply, <<"access_token">>)
        r2 == AssignIf(r1, "refreshToken", reply, <<"refresh_token">>)
        r3 == AssignIf(r2, "refreshToken", reply, <<"state">>)
        r4 == AssignIf(r3, "expires", reply, <<"expires">>)
        r5 == AssignIf(r4, "expires", reply, <<"expires_in">>)
    IN  IF CanRead(reply)
        THEN [threw |-> FALSE, response |-> r5]
        ELSE [threw |-> TRUE, response |-> r0]


(***************************************************************************)
(* request(uri, method, payload, callback, interpretBody)                  *)
(***************************************************************************)
Port == 443

RequestOptions(uri, method, payload) ==
    LET m == IF ~Truthy(method) THEN JStr(<<"POST">>) ELSE method
        u == ReplaceFirst(uri, <<"https", ":", "/", "/">>, <<>>)
    IN  << <<(<<"host">>), JStr(Substring(u, 0, IndexOf(u, "/")))>>,
           <<(<<"path">>), JStr(Substring(u, IndexOf(u, "/"), Len(u)))>>,
           <<(<<"port">>), JNum(Port)>>,
           <<(<<"method">>), m>>,
           <<(<<"content-type">>),
             JStr(<<"application/x-www-form-urlencoded">>)>>,
           <<(<<"content-length">>),
             JNum(IF m = JStr(<<"POST">>) THEN ByteLength(payload) ELSE 0)>> >>

\* https.request(options): the message node sends.  Request headers are
\* the members of options.headers; any other option key that node does not
\* know is ignored.  Node itself adds the host header, and chunked transfer
\* encoding when a body is written and no content-length header was given.
HttpsRequest(options, written) ==
    LET given == IF GetProp(options, <<"headers">>).t = "object"
                 THEN GetProp(options, <<"headers">>).props
                 ELSE <<>>
        host == GetProp(options, <<"host">>)
        own == << <<(<<"host">>), host>> >>
               \o (IF written # <<>> /\ ~HasProp(given, <<"content-length">>)
                   THEN << <<(<<"transfer-encoding">>), JStr(<<"chunked">>)>> >>
                   ELSE <<>>)
    IN  [method |-> GetProp(options, <<"method">>).s,
         host |-> host.s,
         path |-> GetProp(options, <<"path">>).s,
         port |-> GetProp(options, <<"port">>).n,
         headers |-> given \o own,
         body |-> written]

\* `if (method === 'POST') req.write(payload);`
Written(options, payload) ==
    IF GetProp(options, <<"method">>) = JStr(<<"POST">>) THEN payload ELSE <<>>

\* The messages one call of request puts on the wire, and the flag its
\* response handler closes over.
request(uri, method, payload, interpretBody) ==
    LET options == RequestOptions(uri, method, payload)
    IN  [sent |-> <<HttpsRequest(options, Written(options, payload))>>,
         interpretBody |-> Truthy(interpretBody)]

(***************************************************************************)
(* The three operations that call request.  Each returns the heap after    *)
(* the call and what request did.                                          *)
(***************************************************************************)
AuthenticateByCodeParameters(p, redirectUri, code) ==
    LET p0 == << <<(<<"client_id">>), GetProp(p, <<"clientId">>)>>,
                 <<(<<"client_secret">>), GetProp(p, <<"clientSecret">>)>>,
                 <<(<<"redirect_uri">>), redirectUri>>,
                 <<(<<"code">>), code>>,
                 <<(<<"grant_type">>), JStr(<<"authorization_code">>)>> >>
        p1 == WithIfTruthy(p0, <<"scope">>, GetProp(p, <<"scope">>),
                           GetProp(p, <<"scope">>))
    IN  WithIfTruthy(p1, <<"state">>, GetProp(p, <<"state">>),
                     GetProp(p, <<"state">>))

AuthenticateByTokenParameters(p, refreshToken) ==
    LET p0 == << <<(<<"client_id">>), GetProp(p, <<"clientId">>)>>,
                 <<(<<"client_secret">>), GetProp(p, <<"clientSecret">>)>>,
                 <<(<<"refresh_token">>), refreshToken>>,
                 <<(<<"grant_type">>), JStr(<<"refresh_token">>)>> >>
        p1 == WithIfTruthy(p0, <<"scope">>, GetProp(p, <<"scope">>),
                           GetProp(p, <<"scope">>))
    IN  WithIfTruthy(p1, <<"state">>, GetProp(p, <<"state">>),
                     GetProp(p, <<"state">>))

GetUserInfoParameters(accessToken) ==
    << <<(<<"access_token">>), accessToken>> >>

AuthenticateByCodeCall(h, redirectUri, code) ==
    LET p == h["provider"]
        ref == NewParameters
        h1 == [h EXCEPT ![ref] = AuthenticateByCodeParameters(p, redirectUri, code)]
        uri == JsToString(GetProp(p, <<"accessTokenUri">>))
        built == buildQueryString(h1, ref)
    IN  [heap |-> built.heap,
         req |-> request(uri, JStr(<<"POST">>), built.result, JBool(TRUE))]

AuthenticateByTokenCall(h, refreshToken) ==
    LET p == h["provider"]
        ref == NewParameters
        h1 == [h EXCEPT ![ref] = AuthenticateByTokenParameters(p, refreshToken)]
        uri == JsToString(GetProp(p, <<"accessTokenUri">>))
        built == buildQueryString(h1, ref)
    IN  [heap |-> built.heap,
         req |-> request(uri, JStr(<<"POST">>), built.result, JBool(TRUE))]

GetUserInfoCall(h, accessToken) ==
    LET p == h["provider"]
        ref == NewParameters
        h1 == [h EXCEPT ![ref] = GetUserInfoParameters(accessToken)]
        uri == JsToString(GetProp(p, <<"userInfoUri">>))
        built == buildQueryString(h1, ref)
    IN  [heap |-> built.heap,
         req |-> request(uri, JStr(<<"GET">>), built.result, JUndef)]

(***************************************************************************)
(* Calls.  A slot holds one call of an operation that uses request: what   *)
(* it was given, what it sent, the state of its response handler (body),   *)
(* the part of the response still to arrive (incoming), the chunks that    *)
(* arrived (arrived) and the values its continuation was invoked with.     *)
(***************************************************************************)
Slots == 1..MaxCalls

IdleCall ==
    [op |-> "none", arg |-> <<>>, redirectUri |-> <<>>, sent |-> <<>>,
     interpretBody |-> FALSE, phase |-> "idle", incoming |-> <<>>,
     body |-> <<>>, arrived |-> <<>>, delivered |-> <<>>]

Startable(c) == calls[c].phase \in {"idle", "ended", "failed"}

Started(op, arg, redirectUri, req) ==
    [IdleCall EXCEPT !.op = op, !.arg = arg, !.redirectUri = redirectUri,
                     !.sent = req.sent, !.interpretBody = req.interpretBody,
                     !.phase = "waiting"]

AuthenticateByCode(c, redirectUri, code) ==
    /\ alive
    /\ Startable(c)
    /\ LET r == AuthenticateByCodeCall(heap, JStr(redirectUri), JStr(code))
       IN  /\ heap' = r.heap
           /\ calls' = [calls EXCEPT ![c] =
                          Started("AuthenticateByCode", code, redirectUri, r.req)]
    /\ UNCHANGED <<redirect, alive, interp>>

AuthenticateByToken(c, refreshToken) ==
    /\ alive
    /\ Startable(c)
    /\ LET r == AuthenticateByTokenCall(heap, JStr(refreshToken))
       IN  /\ heap' = r.heap
           /\ calls' = [calls EXCEPT ![c] =
                          Started("AuthenticateByToken", refreshToken, <<>>, r.req)]
    /\ UNCHANGED <<redirect, alive, interp>>

GetUserInfo(c, accessToken) ==
    /\ alive
    /\ Startable(c)
    /\ LET r == GetUserInfoCall(heap, JStr(accessToken))
       IN  /\ heap' = r.heap
           /\ calls' = [calls EXCEPT ![c] =
                          Started("GetUserInfo", accessToken, <<>>, r.req)]
    /\ UNCHANGED <<redirect, alive, interp>>

(***************************************************************************)
(* Response events of one call.                                            *)
(***************************************************************************)
\* The response callback: `var body = '';`, then the events follow.
Respond(c, full) ==
    /\ alive
    /\ calls[c].phase = "waiting"
    /\ calls' = [calls EXCEPT ![c].phase = "receiving", ![c].incoming = full,
                              ![c].body = <<>>]
    /\ UNCHANGED <<heap, redirect, alive, interp>>

AppendChunkShared(cs, c, d) == [x \in DOMAIN cs |-> [cs[x] EXCEPT !.body = @ \o d]]

\* `body += d` in the handler of call c: body is a variable of that call's
\* own closure.
AppendChunk(cs, c, d) == [cs EXCEPT ![c].body = @ \o d]

\* res.on('data'): the next chunk of at most MaxChunk lexemes arrives.
Data(c, k) ==
    /\ alive
    /\ calls[c].phase = "receiving"
    /\ k <= Len(calls[c].incoming)
    /\ LET d == SubSeq(calls[c].incoming, 1, k)
           cs == AppendChunk(calls, c, d)
       IN  calls' = [cs EXCEPT
                       ![c].incoming = SubSeq(@, k + 1, Len(@)),
                       ![c].arrived = @ \o d]
    /\ UNCHANGED <<heap, redirect, alive, interp>>

\* What the 'end' handler passes to callback: <<>> when interpretReply threw.
EndValues(call) ==
    IF call.interpretBody
    THEN IF interpretReply(call.body).threw
         THEN <<>>
         ELSE <<interpretReply(call.body).response>>
    ELSE <<JStr(call.body)>>

\* res.on('end'), once the whole response has arrived.  An exception in the
\* handler is uncaught: the process ends unless the application handles it.
End(c) ==
    /\ alive
    /\ calls[c].phase = "receiving"
    /\ calls[c].incoming = <<>>
    /\ calls' = [calls EXCEPT ![c].phase = "ended",
                              ![c].delivered = @ \o EndValues(calls[c])]
    /\ IF EndValues(calls[c]) = <<>> THEN alive' \in BOOLEAN ELSE alive' = alive
    /\ UNCHANGED <<heap, redirect, interp>>

\* The connection fails before the response ends: the request's 'error'
\* event has no listener, so it is thrown and uncaught.  No further event
\* of this call follows, and its handler's closure is dropped.
TransportError(c) ==
    /\ alive
    /\ calls[c].phase \in {"waiting", "receiving"}
    /\ calls' = [calls EXCEPT ![c].phase = "failed", ![c].incoming = <<>>,
                              ![c].body = <<>>, ![c].arrived = <<>>]
    /\ alive' \in BOOLEAN
    /\ UNCHANGED <<heap, redirect, interp>>


(***************************************************************************)
(* Response bodies a server may send, as lexemes.                          *)
(***************************************************************************)
ResponseBodies ==
    { <<"null">>,
      <<"not", "json">>,
      <<"{", "\"access_token\"", ":", "\"A\"", "}">> }

\* The recognized keys with the values a body may give each: a truthy one,
\* a falsy one, null, or none ("absent").
KeyLexemes ==
    <<"\"access_token\"", "\"refresh_token\"", "\"state\"", "\"expires\"",
      "\"expires_in\"">>

ValueLexemes ==
    <<{"absent", "\"A\"", "\"\"", "null"},
      {"absent", "\"R\"", "\"\"", "null"},
      {"absent", "\"S\"", "\"\"", "null"},
      {"absent", "3600", "0", "null"},
      {"absent", "120", "0", "null"}>>

MemberChoices ==
    {ch \in [1..Len(KeyLexemes) -> UNION {ValueLexemes[i] : i \in 1..Len(ValueLexemes)}] :
        \A i \in 1..Len(KeyLexemes) : ch[i] \in ValueLexemes[i]}

\* The JSON text of the object with the chosen members, in key order.
RECURSIVE MemberTexts(_, _)
MemberTexts(ch, i) ==
    IF i > Len(KeyLexemes) THEN <<>>
    ELSE (IF ch[i] = "absent" THEN <<>>
          ELSE << <<KeyLexemes[i], ":", ch[i]>> >>)
         \o MemberTexts(ch, i + 1)

ObjectText(ch) == <<"{">> \o Join(MemberTexts(ch, 1), <<",">>) \o <<"}">>

InterpBodies ==
    {ObjectText(ch) : ch \in MemberChoices}
    \cup { <<"null">>, <<"true">>, <<"false">>, <<"0">>, <<"120">>, <<"\"A\"">>,
           <<"\"\"">>, <<>>, <<"not", "json">>, <<"{">>,
           <<"{", "\"access_token\"">>,
           <<"{", "\"access_token\"", ":", "\"A\"">>,
           <<"{", "\"access_token\"", ":", "\"A\"", ",", "}">>,
           <<"{", "\"state\"", ":", "{", "\"state\"", ":", "\"S\"", "}", "}">>,
           <<"{", "\"state\"", ":", "\"S\"", ",", "\"state\"", ":", "\"\"", "}">>,
           <<"{", "\"access_token\"", ":", "\"A\"", "}", "null">> }

NoInterp == [phase |-> "none", body |-> <<>>, threw |-> FALSE,
             response |-> [accessToken |-> JNull, refreshToken |-> JNull,
                           expires |-> JNull]]

\* One application of interpretReply to the body under test.
Interpret ==
    /\ interp.phase = "input"
    /\ interp' = [phase |-> "done", body |-> interp.body,
                  threw |-> interpretReply(interp.body).threw,
                  response |-> interpretReply(interp.body).response]
    /\ UNCHANGED <<heap, redirect, calls, alive>>

(***************************************************************************)
(* Specifications.                                                         *)
(*   Spec        an application with any provider descriptor that makes    *)
(*               one call after another, with any inputs.                  *)
(*   RedirectSpec CreateRedirect alone, on every provider and input.       *)
(*   ConcSpec    up to MaxCalls calls in flight at once: slot c holds the  *)
(*               c-th call issued.                                         *)
(*   InterpSpec  interpretReply applied to every body of InterpBodies.     *)
(***************************************************************************)
StartHeap(p) == [r \in Refs |-> IF r = "provider" THEN p ELSE <<>>]

Init ==
    /\ heap \in {StartHeap(p) : p \in Providers}
    /\ redirect = NoRedirect
    /\ calls = [c \in Slots |-> IdleCall]
    /\ alive = TRUE
    /\ interp = NoInterp

Next ==
    \/ \E u \in RedirectUris : CreateRedirect(u, JUndef)
    \/ \E u \in RedirectUris, code \in Codes : AuthenticateByCode(1, u, code)
    \/ \E tok \in Tokens : AuthenticateByToken(1, tok)
    \/ \E tok \in Tokens : GetUserInfo(1, tok)
    \/ \E full \in ResponseBodies : Respond(1, full)
    \/ \E k \in 1..MaxChunk : Data(1, k)
    \/ End(1)
    \/ TransportError(1)

Spec == Init /\ [][Next]_vars

RedirectNext == \E u \in RedirectUris, l \in Locales : CreateRedirect(u, l)

RedirectSpec == Init /\ [][RedirectNext]_vars

ConcInit ==
    /\ heap = StartHeap(FullProvider)
    /\ redirect = NoRedirect
    /\ calls = [c \in Slots |-> IdleCall]
    /\ alive = TRUE
    /\ interp = NoInterp

\* The next call takes the first slot no call has used yet.
NextFree(c) ==
    /\ calls[c].phase = "idle"
    /\ \A b \in Slots : b < c => calls[b].phase # "idle"

ConcNext ==
    \E c \in Slots :
        \/ /\ NextFree(c)
           /\ AuthenticateByCode(c, <<"https", ":", "/", "/", "app", "/", "cb">>,
                                 <<"4", "/", "a">>)
        \/ NextFree(c) /\ AuthenticateByToken(c, <<"1", "+", "b">>)
        \/ NextFree(c) /\ GetUserInfo(c, <<"tok">>)
        \/ \E full \in ResponseBodies : Respond(c, full)
        \/ \E k \in 1..MaxChunk : Data(c, k)
        \/ End(c)
        \/ TransportError(c)

ConcSpec == ConcInit /\ [][ConcNext]_vars

InterpInit ==
    /\ heap = StartHeap(FullProvider)
    /\ redirect = NoRedirect
    /\ calls = [c \in Slots |-> IdleCall]
    /\ alive = TRUE
    /\ interp \in {[NoInterp EXCEPT !.phase = "input", !.body = b] : b \in InterpBodies}

InterpNext == Interpret

InterpSpec == InterpInit /\ [][InterpNext]_vars


(***************************************************************************)
(* The receiving side: how a server reads a query string or a form body    *)
(* (split on "&", then on the first "=", then decode "+" and %XX once).    *)
(* These state what the requests mean; they model no code of the library.  *)
(***************************************************************************)
RECURSIVE SplitOn(_, _)
SplitOn(s, sep) ==
    IF IndexOf(s, sep) < 0 THEN <<s>>
    ELSE <<SubSeq(s, 1, IndexOf(s, sep))>>
         \o SplitOn(SubSeq(s, IndexOf(s, sep) + 2, Len(s)), sep)

IsCode(h) == \E c \in DOMAIN PercentCode : PercentCode[c] = h

Decoded(h) == CHOOSE c \in DOMAIN PercentCode : PercentCode[c] = h

RECURSIVE FormDecode(_)
FormDecode(s) ==
    IF s = <<>> THEN <<>>
    ELSE IF s[1] = "%" /\ Len(s) >= 3 /\ IsCode(SubSeq(s, 2, 3))
         THEN <<Decoded(SubSeq(s, 2, 3))>> \o FormDecode(SubSeq(s, 4, Len(s)))
    ELSE IF s[1] = "+" THEN <<" ">> \o FormDecode(Tail(s))
    ELSE <<s[1]>> \o FormDecode(Tail(s))

\* One "key=value" segment as <<key, value>>, both decoded once.
DecodePair(seg) ==
    IF IndexOf(seg, "=") < 0 THEN <<FormDecode(seg), <<>> >>
    ELSE <<FormDecode(SubSeq(seg, 1, IndexOf(seg, "="))),
           FormDecode(SubSeq(seg, IndexOf(seg, "=") + 2, Len(seg)))>>

ParseQuery(q) ==
    IF q = <<>> THEN <<>>
    ELSE [i \in 1..Len(SplitOn(q, "&")) |-> DecodePair(SplitOn(q, "&")[i])]

\* The part of a URL or path after its first "?", empty when it has none.
QueryOf(url) ==
    IF IndexOf(url, "?") < 0 THEN <<>>
    ELSE SubSeq(url, IndexOf(url, "?") + 2, Len(url))

PairSet(pairs) == {pairs[i] : i \in 1..Len(pairs)}

KeySet(pairs) == {pairs[i][1] : i \in 1..Len(pairs)}

ProviderNow == heap["provider"]


(***************************************************************************)
(* Claims.                                                                 *)
(***************************************************************************)
HasSent(c) == calls[c].sent # <<>>

\* C1: every GetUserInfo call issues exactly one request, a GET, whose path
\* carries the payload as its query string, so that the server reads
\* access_token = the given token from it.
C1_GetUserInfoSendsToken ==
    \A c \in Slots :
        calls[c].op = "GetUserInfo" =>
            /\ Len(calls[c].sent) = 1
            /\ calls[c].sent[1].method = <<"GET">>
            /\ <<(<<"access_token">>), calls[c].arg>>
                   \in PairSet(ParseQuery(QueryOf(calls[c].sent[1].path)))

\* C5: the query of the CreateRedirect output has the five parameters
\* client_id, display=page, locale (the given one, or "en" when it is
\* omitted or falsy), redirect_uri and response_type=code; it has
\* access_type=offline, scope, state each exactly when the descriptor's
\* offline, scope, state is truthy; and it has no other parameter.
RedirectQuery == ParseQuery(QueryOf(redirect.result))

OptionalKeys ==
    (IF Truthy(GetProp(ProviderNow, <<"offline">>)) THEN {<<"access_type">>} ELSE {})
    \cup (IF Truthy(GetProp(ProviderNow, <<"scope">>)) THEN {<<"scope">>} ELSE {})
    \cup (IF Truthy(GetProp(ProviderNow, <<"state">>)) THEN {<<"state">>} ELSE {})

RequiredKeys ==
    {<<"client_id">>, <<"display">>, <<"locale">>, <<"redirect_uri">>,
     <<"response_type">>}

C5_RedirectParameters ==
    redirect.called =>
        /\ KeySet(RedirectQuery) = RequiredKeys \cup OptionalKeys
        /\ Len(RedirectQuery) = Cardinality(RequiredKeys \cup OptionalKeys)
        /\ <<(<<"display">>), <<"page">> >> \in PairSet(RedirectQuery)
        /\ <<(<<"response_type">>), <<"code">> >> \in PairSet(RedirectQuery)
        /\ <<(<<"locale">>),
             IF Truthy(redirect.locale) THEN redirect.locale.s ELSE <<"en">> >>
               \in PairSet(RedirectQuery)
        /\ <<"access_type">> \in KeySet(RedirectQuery) =>
               <<(<<"access_type">>), <<"offline">> >> \in PairSet(RedirectQuery)

\* A redirect built for a descriptor with offline and scope set but a falsy
\* or missing state, with the locale omitted or empty.
C5_Witness ==
    /\ redirect.called
    /\ ~Truthy(redirect.locale)
    /\ Truthy(GetProp(ProviderNow, <<"offline">>))
    /\ Truthy(GetProp(ProviderNow, <<"scope">>))
    /\ ~Truthy(GetProp(ProviderNow, <<"state">>))
    /\ KeySet(RedirectQuery) = RequiredKeys \cup {<<"access_type">>, <<"scope">>}

\* C6: every exchanger call issues exactly one request, a POST to
\* accessTokenUri, whose form body reads as exactly client_id and
\* client_secret, the grant's own fields with the given code or token, and
\* scope and state each exactly when truthy on the descriptor.
GrantFields(call) ==
    IF call.op = "AuthenticateByCode"
    THEN { <<(<<"redirect_uri">>), call.redirectUri>>,
           <<(<<"code">>), call.arg>>,
           <<(<<"grant_type">>), <<"authorization_code">> >> }
    ELSE { <<(<<"refresh_token">>), call.arg>>,
           <<(<<"grant_type">>), <<"refresh_token">> >> }

DescriptorFields ==
    { <<(<<"client_id">>), GetProp(ProviderNow, <<"clientId">>).s>>,
      <<(<<"client_secret">>), GetProp(ProviderNow, <<"clientSecret">>).s>> }
    \cup (IF Truthy(GetProp(ProviderNow, <<"scope">>))
          THEN { <<(<<"scope">>), GetProp(ProviderNow, <<"scope">>).s>> } ELSE {})
    \cup (IF Truthy(GetProp(ProviderNow, <<"state">>))
          THEN { <<(<<"state">>), GetProp(ProviderNow, <<"state">>).s>> } ELSE {})

IsExchanger(call) == call.op \in {"AuthenticateByCode", "AuthenticateByToken"}

C6_ExchangerRequest ==
    \A c \in Slots :
        IsExchanger(calls[c]) =>
            /\ Len(calls[c].sent) = 1
            /\ calls[c].sent[1].method = <<"POST">>
            /\ <<"https", ":", "/", "/">> \o calls[c].sent[1].host
                 \o calls[c].sent[1].path
                   = GetProp(ProviderNow, <<"accessTokenUri">>).s
            /\ PairSet(ParseQuery(calls[c].sent[1].body))
                   = GrantFields(calls[c]) \cup DescriptorFields
            /\ Len(ParseQuery(calls[c].sent[1].body))
                   = Cardinality(GrantFields(calls[c]) \cup DescriptorFields)

\* C7: every request sent carries the header content-type:
\* application/x-www-form-urlencoded, and every POST also a content-length
\* header equal to the byte length of its body.
C7_RequestHeaders ==
    \A c \in Slots : \A i \in 1..Len(calls[c].sent) :
        LET m == calls[c].sent[i] IN
        /\ GetProp(m.headers, <<"content-type">>)
               = JStr(<<"application/x-www-form-urlencoded">>)
        /\ m.method = <<"POST">> =>
               GetProp(m.headers, <<"content-length">>) = JNum(ByteLength(m.body))

\* C8: the CreateRedirect output is authUri ? query, the query lists the
\* parameters in insertion order as key=<percent-encoding of the value>
\* joined by "&", and decoding the query once gives back every value.
RedirectStaged ==
    CreateRedirectParameters(ProviderNow, JStr(redirect.redirectUri),
                             redirect.locale)

C8_RedirectEncodedOnce ==
    redirect.called =>
        /\ redirect.result =
               GetProp(ProviderNow, <<"authUri">>).s \o <<"?">> \o
               Join([i \in 1..Len(RedirectStaged) |->
                       RedirectStaged[i][1] \o <<"=">> \o
                       EscapeString(JsToString(RedirectStaged[i][2]))],
                    <<"&">>)
        /\ RedirectQuery =
               [i \in 1..Len(RedirectStaged) |->
                  <<RedirectStaged[i][1], JsToString(RedirectStaged[i][2])>>]

\* What holds of the exchanger's body all the same: the names of its fields.
ExchangerFieldNames ==
    \A c \in Slots :
        IsExchanger(calls[c]) =>
            KeySet(ParseQuery(calls[c].sent[1].body))
              = {f[1] : f \in GrantFields(calls[c]) \cup DescriptorFields}

\* What holds of the redirect's query all the same: the names of its
\* parameters, in insertion order.
RedirectFieldOrder ==
    redirect.called => Keys(RedirectQuery) = Keys(RedirectStaged)

\* C2: the continuation of a call is invoked at most once, not before the
\* response has ended, and exactly once when it has ended.
C2_ContinuationExactlyOnce ==
    \A c \in Slots :
        /\ Len(calls[c].delivered) <= 1
        /\ calls[c].phase # "ended" => calls[c].delivered = <<>>
        /\ calls[c].phase = "ended" => Len(calls[c].delivered) = 1

\* C3: on every body the interpreter returns a result and does not raise,
\* and when the body does not parse to an object with a recognized field
\* the result's three fields are all null.
ParsedReply(body) ==
    IF JSONparse(body).ok THEN JSONparse(body).value ELSE JStr(body)

Present(reply, key) == reply.t = "object" /\ HasProp(reply.props, key)

RecognizedKeys ==
    {<<"access_token">>, <<"refresh_token">>, <<"state">>, <<"expires">>,
     <<"expires_in">>}

AllAbsent ==
    [accessToken |-> JNull, refreshToken |-> JNull, expires |-> JNull]

C3_InterpreterNeverRaises ==
    interp.phase = "done" =>
        /\ ~interp.threw
        /\ (\A k \in RecognizedKeys : ~Present(ParsedReply(interp.body), k))
               => interp.response = AllAbsent

\* C4 as stated: the result has exactly the three fields, each given by
\* later-checked-wins precedence over the fields PRESENT in the parsed body.
FirstPresent(reply, first, second) ==
    IF Present(reply, first) THEN Member(reply, first)
    ELSE IF Present(reply, second) THEN Member(reply, second)
    ELSE JNull

C4_PrecedenceByPresence ==
    (interp.phase = "done" /\ ~interp.threw) =>
        LET reply == ParsedReply(interp.body) IN
        /\ DOMAIN interp.response = {"accessToken", "refreshToken", "expires"}
        /\ interp.response.accessToken
               = FirstPresent(reply, <<"access_token">>, <<"access_token">>)
        /\ interp.response.refreshToken
               = FirstPresent(reply, <<"state">>, <<"refresh_token">>)
        /\ interp.response.expires
               = FirstPresent(reply, <<"expires_in">>, <<"expires">>)

\* C4 as amended: the same, with the precedence over the fields that are
\* present AND TRUTHY in the parsed body.
FirstTruthy(reply, first, second) ==
    IF Truthy(Member(reply, first)) THEN Member(reply, first)
    ELSE IF Truthy(Member(reply, second)) THEN Member(reply, second)
    ELSE JNull

C4_PrecedenceByTruthiness ==
    (interp.phase = "done" /\ ~interp.threw) =>
        LET reply == ParsedReply(interp.body) IN
        /\ DOMAIN interp.response = {"accessToken", "refreshToken", "expires"}
        /\ interp.response.accessToken
               = FirstTruthy(reply, <<"access_token">>, <<"access_token">>)
        /\ interp.response.refreshToken
               = FirstTruthy(reply, <<"state">>, <<"refresh_token">>)
        /\ interp.response.expires
               = FirstTruthy(reply, <<"expires_in">>, <<"expires">>)

\* A body with refresh_token and state both truthy, expires_in present but
\* 0 and expires truthy: state wins, and expires falls back to expires.
C4_Witness ==
    /\ interp.phase = "done"
    /\ ~interp.threw
    /\ Member(ParsedReply(interp.body), <<"refresh_token">>) = JStr(<<"R">>)
    /\ Member(ParsedReply(interp.body), <<"expires_in">>) = JNum(0)
    /\ interp.response.refreshToken = JStr(<<"S">>)
    /\ interp.response.expires = JNum(3600)

\* C9: whatever the interleaving of the calls' events, the value a call's
\* continuation receives is computed from that call's own chunks in arrival
\* order: their concatenation for GetUserInfo, its interpretation for an
\* exchanger.
C9_NoInterference ==
    \A c \in Slots : \A i \in 1..Len(calls[c].delivered) :
        calls[c].delivered[i] =
            IF calls[c].op = "GetUserInfo"
            THEN JStr(calls[c].arrived)
            ELSE interpretReply(calls[c].arrived).response

\* The second call has completed on a non-empty body while the first, an
\* exchanger whose response differs, is part-way through its chunks.
C9_Witness ==
    /\ calls[1].phase = "receiving"
    /\ IsExchanger(calls[1])
    /\ calls[1].body # <<>>
    /\ calls[1].incoming # <<>>
    /\ calls[2].op = "GetUserInfo"
    /\ calls[2].delivered = <<JStr(<<"not", "json">>)>>

\* C10: no step changes any field of the provider descriptor.
C10_ProviderUnchanged == [][heap'["provider"] = heap["provider"]]_vars

\* A redirect was built and a call's parameters were encoded in place (a
\* staged value now holds an escape), for a descriptor with a scope.
C10_Witness ==
    /\ redirect.called
    /\ HasSent(1)
    /\ Truthy(GetProp(ProviderNow, <<"scope">>))
    /\ \E i \in 1..Len(heap["parameters"]) :
           \E j \in 1..Len(heap["parameters"][i][2].s) :
               heap["parameters"][i][2].s[j] = "%"

====
